---- MODULE Spec2Model ----
(***************************************************************************)
(* Model of streamlit_app.py, the Streamlit dashboard of the Open WebUI    *)
(* cost tracker: load_data, process_data (the normalizer), plot_data (the  *)
(* aggregator) and main (one script run per user interaction).             *)
(***************************************************************************)
EXTENDS Integers, Sequences, FiniteSets, TLC

VARIABLES
    file,            \* the content of the uploaded file, NoFile before any upload
    status,          \* how the last script run ended: waiting, nodata, ok, raised
    processed_data,  \* the DataFrame process_data returned in the last run
    months,          \* processed_data["month"].unique(), in order of appearance
    month,           \* the value of the "Select a month" selectbox
    clicked,         \* the button that triggered the last run, "" if none
    messages,        \* the st.error / st.warning boxes of the last run, in order
    plot             \* what plot_data computed in the last run

vars == <<file, status, processed_data, months, month, clicked, messages, plot>>

----------------------------------------------------------------------------
(* JSON values. Every value has the same three fields so that any two can  *)
(* be compared: t is the Python type after json.load, n the number and s   *)
(* the text. JFloat(k) is the JSON number k/10 (0.1 is JFloat(1)).         *)

Absent    == [t |-> "absent", n |-> 0, s |-> ""]
JInt(i)   == [t |-> "int", n |-> i, s |-> ""]
JFloat(k) == [t |-> "float", n |-> k, s |-> ""]
JStr(x)   == [t |-> "str", n |-> 0, s |-> x]

(* A float64. F64(k, d) is the IEEE-754 double that lies d units in the    *)
(* last place above the double nearest to k/10: F64(3, 0) is 0.3 and       *)
(* F64(3, 1) is 0.30000000000000004, the value of 0.1 + 0.2.               *)
F64(k, d) == [k |-> k, d |-> d]

IsIntegral(x) == x.d = 0 /\ x.k % 10 = 0

F64Less(x, y) == x.k < y.k \/ (x.k = y.k /\ x.d < y.d)

----------------------------------------------------------------------------
(* A record of the input. isdict is FALSE for an array element that is not *)
(* a JSON object (a number, say); a key the object lacks is Absent.        *)

Rec(ts, model, cost, inp, out, img, type, user) ==
    [isdict |-> TRUE, timestamp |-> ts, model |-> model, total_cost |-> cost,
     input_tokens |-> inp, output_tokens |-> out, image_count |-> img,
     type |-> type, user |-> user]

NonDictRecord ==
    [isdict |-> FALSE, timestamp |-> Absent, model |-> Absent, total_cost |-> Absent,
     input_tokens |-> Absent, output_tokens |-> Absent, image_count |-> Absent,
     type |-> Absent, user |-> Absent]

NoRecord == NonDictRecord

(* The content of a file. root is the top-level JSON value json.load       *)
(* returns: an object (entries: key, and the list of records or a value    *)
(* that is no list), an array (items), a number, null, or "invalid" for    *)
(* bytes that are not JSON.                                                *)
ObjectDoc(entries) == [root |-> "object", entries |-> entries, items |-> <<>>]
ArrayDoc(items)    == [root |-> "array", entries |-> <<>>, items |-> items]
NumberDoc          == [root |-> "number", entries |-> <<>>, items |-> <<>>]
NullDoc            == [root |-> "null", entries |-> <<>>, items |-> <<>>]
InvalidJson        == [root |-> "invalid", entries |-> <<>>, items |-> <<>>]
NoFile             == [root |-> "nofile", entries |-> <<>>, items |-> <<>>]

Entry(user_email, islist, records) ==
    [key |-> user_email, islist |-> islist, records |-> records]

----------------------------------------------------------------------------
(* The library calls of process_data, on the texts the model uses.         *)

TsNov == "2024-11-01T10:00:00.000000"
TsDec == "2024-12-05T08:30:00.000000"
TsBad == "2024-11-01 10:00:00"

(* datetime.datetime.strptime(text, "%Y-%m-%dT%H:%M:%S.%f"): the year and  *)
(* month of a text in that format; any other text raises ValueError (TsBad *)
(* has a space for the "T" and no fraction).                               *)
strptime(text) ==
    CASE text = TsNov -> [ok |-> TRUE, year |-> 2024, month |-> 11]
      [] text = TsDec -> [ok |-> TRUE, year |-> 2024, month |-> 12]
      [] OTHER        -> [ok |-> FALSE, year |-> 0, month |-> 0]

Pad(n, width) ==
    LET digits == ToString(n)
        zeros  == [i \in 0..4 |-> CASE i = 0 -> "" [] i = 1 -> "0" [] i = 2 -> "00"
                                    [] i = 3 -> "000" [] OTHER -> "0000"]
    IN  IF Len(digits) >= width THEN digits ELSE zeros[width - Len(digits)] \o digits

(* timestamp.strftime("%Y-%m") *)
strftime(timestamp) == Pad(timestamp.year, 4) \o "-" \o Pad(timestamp.month, 2)

(* float(cost) of a str: the double nearest the decimal text, ValueError   *)
(* for a text that is no number.                                           *)
float(text) ==
    CASE text = "0.2" -> [ok |-> TRUE, val |-> F64(2, 0)]
      [] text = "2"   -> [ok |-> TRUE, val |-> F64(20, 0)]
      [] OTHER        -> [ok |-> FALSE, val |-> F64(0, 0)]

(* The value of the "total_cost" column for a cost that passed lines       *)
(* 68-72: a JSON int or float keeps its value, a str became float(cost).   *)
CostValue(cost) ==
    CASE cost.t = "int"   -> [ok |-> TRUE, val |-> F64(10 * cost.n, 0)]
      [] cost.t = "float" -> [ok |-> TRUE, val |-> F64(cost.n, 0)]
      [] OTHER            -> float(cost.s)

(* record["input_tokens"] + record["output_tokens"]: int + int adds, str + *)
(* str concatenates, int + str and str + int raise TypeError.              *)
PyAdd(a, b) ==
    CASE a.t = "int" /\ b.t = "int" -> [ok |-> TRUE, val |-> JInt(a.n + b.n)]
      [] a.t = "str" /\ b.t = "str" -> [ok |-> TRUE, val |-> JStr(a.s \o b.s)]
      [] OTHER                      -> [ok |-> FALSE, val |-> Absent]

(* record.get(key, default) *)
Get(value, default) == IF value = Absent THEN default ELSE value

----------------------------------------------------------------------------
(* process_data                                                            *)

Columns == <<"month", "model", "total_cost", "user", "total_tokens", "image_count", "type">>

NoRow ==
    [month |-> "", model |-> Absent, total_cost |-> F64(0, 0), user |-> Absent,
     total_tokens |-> Absent, image_count |-> Absent, type |-> Absent]

Appended(row)   == [exc |-> "", key |-> "", row |-> row]
KeyError(key)   == [exc |-> "KeyError", key |-> key, row |-> NoRow]
ValueError      == [exc |-> "ValueError", key |-> "", row |-> NoRow]
TypeError       == [exc |-> "TypeError", key |-> "", row |-> NoRow]

(* The try body of the object branch, lines 63-88: the row appended, or    *)
(* the exception the first failing statement raises.                       *)
TryKeyedRecord(user_email, record) ==
    IF ~record.isdict THEN TypeError
    ELSE IF record.timestamp = Absent THEN KeyError("timestamp")
    ELSE IF record.timestamp.t # "str" THEN TypeError
    ELSE LET timestamp == strptime(record.timestamp.s) IN
    IF ~timestamp.ok THEN ValueError
    ELSE IF record.model = Absent THEN KeyError("model")
    ELSE IF record.total_cost = Absent THEN KeyError("total_cost")
    ELSE LET cost == CostValue(record.total_cost) IN
    IF ~cost.ok THEN ValueError
    ELSE IF record.input_tokens = Absent THEN KeyError("input_tokens")
    ELSE IF record.output_tokens = Absent THEN KeyError("output_tokens")
    ELSE LET total_tokens == PyAdd(record.input_tokens, record.output_tokens) IN
    IF ~total_tokens.ok THEN TypeError
    ELSE Appended([month |-> strftime(timestamp),
                   model |-> record.model,
                   total_cost |-> cost.val,
                   user |-> JStr(user_email),
                   total_tokens |-> total_tokens.val,
                   image_count |-> Get(record.image_count, JInt(0)),
                   type |-> Get(record.type, JStr("chat_completion"))])

(* The array branch with its image_count left at the default. *)
TryFlatRecordWithoutImages(record) ==
    LET keyed == TryKeyedRecord("", record) IN
    IF keyed.exc # "" THEN keyed
    ELSE IF record.user = Absent THEN KeyError("user")
    ELSE Appended([keyed.row EXCEPT !.user = record.user, !.image_count = JInt(0)])

(* The try body of the array branch, lines 102-128: as above, with the     *)
(* user read from the record after total_cost.                             *)
TryFlatRecord(record) ==
    IF ~record.isdict THEN TypeError
    ELSE IF record.timestamp = Absent THEN KeyError("timestamp")
    ELSE IF record.timestamp.t # "str" THEN TypeError
    ELSE LET timestamp == strptime(record.timestamp.s) IN
    IF ~timestamp.ok THEN ValueError
    ELSE IF record.model = Absent THEN KeyError("model")
    ELSE IF record.total_cost = Absent THEN KeyError("total_cost")
    ELSE IF record.user = Absent THEN KeyError("user")
    ELSE LET cost == CostValue(record.total_cost) IN
    IF ~cost.ok THEN ValueError
    ELSE IF record.input_tokens = Absent THEN KeyError("input_tokens")
    ELSE IF record.output_tokens = Absent THEN KeyError("output_tokens")
    ELSE LET total_tokens == PyAdd(record.input_tokens, record.output_tokens) IN
    IF ~total_tokens.ok THEN TypeError
    ELSE Appended([month |-> strftime(timestamp),
                   model |-> record.model,
                   total_cost |-> cost.val,
                   user |-> record.user,
                   total_tokens |-> total_tokens.val,
                   image_count |-> Get(record.image_count, JInt(0)),
                   type |-> Get(record.type, JStr("chat_completion"))])

(* A box on the page. kind names the st.error / st.warning call by its     *)
(* text: MissingField is "Missing key in record", InvalidNumeric "Invalid  *)
(* cost or token value in record", OtherError "An error occurred           *)
(* processing record", NotAList "Expected a list of records for user",     *)
(* NoValidData "No valid data found to process.", NoDataForPeriod "No data *)
(* available for", InvalidDocument "Invalid JSON file.". detail is the key *)
(* (MissingField), the user (NotAList) or the month (NoDataForPeriod), and *)
(* record the record the text prints.                                      *)
Diag(kind, detail, record) == [kind |-> kind, detail |-> detail, record |-> record]

(* The except clauses without the one for KeyError. *)
HandlerWithoutKeyError(outcome, record) ==
    CASE outcome.exc = "ValueError" -> Diag("InvalidNumeric", "", record)
      [] OTHER                      -> Diag("OtherError", "", record)

(* The except clauses, lines 89-97 and 129-137. *)
Handler(outcome, record) ==
    CASE outcome.exc = "KeyError"   -> Diag("MissingField", outcome.key, record)
      [] outcome.exc = "ValueError" -> Diag("InvalidNumeric", "", record)
      [] OTHER                      -> Diag("OtherError", "", record)

(* One iteration of a for loop over records: acc is processed_data and the *)
(* boxes shown so far.                                                     *)
Step(acc, outcome, record) ==
    IF outcome.exc = ""
    THEN [rows |-> Append(acc.rows, outcome.row), diags |-> acc.diags]
    ELSE [rows |-> acc.rows, diags |-> Append(acc.diags, Handler(outcome, record))]

RECURSIVE KeyedLoop(_, _, _)
(* for record in records, lines 61-97 *)
KeyedLoop(user_email, records, acc) ==
    IF records = <<>> THEN acc
    ELSE KeyedLoop(user_email, Tail(records),
                   Step(acc, TryKeyedRecord(user_email, Head(records)), Head(records)))

RECURSIVE ObjectLoop(_, _)
(* for user_email, records in data.items(), lines 56-97 *)
ObjectLoop(entries, acc) ==
    IF entries = <<>> THEN acc
    ELSE LET e == Head(entries) IN
         IF ~e.islist
         THEN ObjectLoop(Tail(entries),
                  [rows |-> acc.rows,
                   diags |-> Append(acc.diags, Diag("NotAList", e.key, NoRecord))])
         ELSE ObjectLoop(Tail(entries), KeyedLoop(e.key, e.records, acc))

RECURSIVE FlatLoop(_, _)
(* for record in data, lines 100-137 *)
FlatLoop(items, acc) ==
    IF items = <<>> THEN acc
    ELSE FlatLoop(Tail(items), Step(acc, TryFlatRecord(Head(items)), Head(items)))

DataFrame(columns, rows) == [columns |-> columns, rows |-> rows]

(* pd.DataFrame() without the columns argument. *)
EmptyFrameWithoutColumns == DataFrame(<<>>, <<>>)

(* Line 142: the frame returned when nothing was appended. *)
EmptyFrame == DataFrame(Columns, <<>>)

NoFrame == DataFrame(<<>>, <<>>)

(* process_data, lines 51-144: the frame returned and the boxes shown, or  *)
(* raised when iterating a root that is neither object nor array raises    *)
(* TypeError at line 100.                                                  *)
process_data(data) ==
    IF data.root \notin {"object", "array"}
    THEN [raised |-> TRUE, frame |-> NoFrame, diags |-> <<>>]
    ELSE LET start == [rows |-> <<>>, diags |-> <<>>]
             acc   == IF data.root = "object" THEN ObjectLoop(data.entries, start)
                      ELSE FlatLoop(data.items, start)
         IN  IF acc.rows = <<>>
             THEN [raised |-> FALSE, frame |-> EmptyFrame,
                   diags |-> Append(acc.diags, Diag("NoValidData", "", NoRecord))]
             ELSE [raised |-> FALSE, frame |-> DataFrame(Columns, acc.rows),
                   diags |-> acc.diags]

----------------------------------------------------------------------------
(* float64 sums. The cost column is float64, and a float64 sum depends on  *)
(* the order of its additions. The tables give, for the costs of the model *)
(* (0.1, 0.2, 0.3 and 2) and every sum of up to four of them, how IEEE-754 *)
(* round-to-nearest addition rounds: a quadruple                           *)
(* <<k1, d1, k2, d2>> stands for F64(k1, d1) + F64(k2, d2), whose result   *)
(* lies 1 unit in the last place above (AddRoundsUp), below                *)
(* (AddRoundsDown) or at (AddRoundsToNearestTenth) the double nearest      *)
(* (k1 + k2)/10. Sums of whole numbers are exact.                          *)

AddRoundsUp ==
    {
     <<1, 0, 2, 0>>, <<1, 0, 22, 0>>, <<1, 0, 23, 1>>, <<1, 0, 24, 1>>,
     <<1, 0, 6, 1>>, <<2, 0, 1, 0>>, <<2, 0, 21, 0>>, <<2, 0, 22, 0>>,
     <<2, 0, 23, 1>>, <<2, 0, 24, 1>>, <<2, 0, 26, 0>>, <<2, 0, 4, 0>>,
     <<20, 0, 23, 1>>, <<21, 0, 2, 0>>, <<21, 0, 22, 0>>, <<21, 0, 3, 1>>,
     <<22, 0, 1, 0>>, <<22, 0, 2, 0>>, <<22, 0, 21, 0>>, <<22, 0, 6, 0>>,
     <<23, 1, 1, 0>>, <<23, 1, 2, 0>>, <<23, 1, 20, 0>>, <<24, 1, 1, 0>>,
     <<24, 1, 2, 0>>, <<26, 0, 2, 0>>, <<3, 0, 3, 1>>, <<3, 0, 6, 1>>,
     <<3, 1, 21, 0>>, <<3, 1, 3, 0>>, <<3, 1, 3, 1>>, <<3, 1, 4, 0>>,
     <<4, 0, 2, 0>>, <<4, 0, 3, 1>>, <<6, 0, 22, 0>>, <<6, 1, 1, 0>>,
     <<6, 1, 3, 0>>
    }

AddRoundsDown ==
    {
     <<1, 0, 41, 0>>, <<1, 0, 43, 0>>, <<1, 0, 7, 0>>, <<1, 0, 9, -1>>,
     <<2, 0, 7, 0>>, <<2, 0, 9, -1>>, <<23, 0, 3, 0>>, <<23, 0, 3, 1>>,
     <<23, 0, 4, 0>>, <<24, 0, 3, 0>>, <<26, -1, 1, 0>>, <<26, -1, 3, 0>>,
     <<3, 0, 23, 0>>, <<3, 0, 24, 0>>, <<3, 0, 41, 0>>, <<3, 0, 6, 0>>,
     <<3, 1, 23, 0>>, <<4, 0, 23, 0>>, <<41, 0, 1, 0>>, <<41, 0, 3, 0>>,
     <<43, 0, 1, 0>>, <<6, 0, 3, 0>>, <<7, 0, 1, 0>>, <<7, 0, 2, 0>>,
     <<9, -1, 1, 0>>, <<9, -1, 2, 0>>
    }

AddRoundsToNearestTenth ==
    {
     <<1, 0, 1, 0>>, <<1, 0, 20, 0>>, <<1, 0, 21, 0>>, <<1, 0, 23, 0>>,
     <<1, 0, 24, 0>>, <<1, 0, 25, 0>>, <<1, 0, 26, 0>>, <<1, 0, 3, 0>>,
     <<1, 0, 3, 1>>, <<1, 0, 4, 0>>, <<1, 0, 40, 0>>, <<1, 0, 42, 0>>,
     <<1, 0, 5, 0>>, <<1, 0, 6, 0>>, <<1, 0, 60, 0>>, <<1, 0, 8, 0>>,
     <<2, 0, 2, 0>>, <<2, 0, 20, 0>>, <<2, 0, 23, 0>>, <<2, 0, 24, 0>>,
     <<2, 0, 25, 0>>, <<2, 0, 3, 0>>, <<2, 0, 3, 1>>, <<2, 0, 40, 0>>,
     <<2, 0, 41, 0>>, <<2, 0, 42, 0>>, <<2, 0, 43, 0>>, <<2, 0, 5, 0>>,
     <<2, 0, 6, 0>>, <<2, 0, 6, 1>>, <<2, 0, 60, 0>>, <<2, 0, 8, 0>>,
     <<20, 0, 1, 0>>, <<20, 0, 2, 0>>, <<20, 0, 21, 0>>, <<20, 0, 22, 0>>,
     <<20, 0, 23, 0>>, <<20, 0, 24, 0>>, <<20, 0, 24, 1>>, <<20, 0, 25, 0>>,
     <<20, 0, 26, 0>>, <<20, 0, 3, 0>>, <<20, 0, 3, 1>>, <<20, 0, 4, 0>>,
     <<20, 0, 41, 0>>, <<20, 0, 42, 0>>, <<20, 0, 43, 0>>, <<20, 0, 5, 0>>,
     <<20, 0, 6, 0>>, <<20, 0, 6, 1>>, <<20, 0, 7, 0>>, <<20, 0, 8, 0>>,
     <<20, 0, 9, -1>>, <<21, 0, 1, 0>>, <<21, 0, 20, 0>>, <<21, 0, 21, 0>>,
     <<21, 0, 23, 0>>, <<21, 0, 3, 0>>, <<21, 0, 4, 0>>, <<21, 0, 40, 0>>,
     <<21, 0, 5, 0>>, <<21, 0, 6, 0>>, <<22, 0, 20, 0>>, <<22, 0, 22, 0>>,
     <<22, 0, 23, 0>>, <<22, 0, 3, 0>>, <<22, 0, 3, 1>>, <<22, 0, 4, 0>>,
     <<22, 0, 40, 0>>, <<22, 0, 5, 0>>, <<23, 0, 1, 0>>, <<23, 0, 2, 0>>,
     <<23, 0, 20, 0>>, <<23, 0, 21, 0>>, <<23, 0, 22, 0>>, <<23, 0, 23, 0>>,
     <<23, 0, 40, 0>>, <<23, 0, 5, 0>>, <<23, 0, 6, 0>>, <<23, 1, 3, 0>>,
     <<24, 0, 1, 0>>, <<24, 0, 2, 0>>, <<24, 0, 20, 0>>, <<24, 1, 20, 0>>,
     <<24, 1, 3, 0>>, <<25, 0, 1, 0>>, <<25, 0, 2, 0>>, <<25, 0, 20, 0>>,
     <<25, 0, 3, 0>>, <<26, -1, 2, 0>>, <<26, -1, 20, 0>>, <<26, 0, 1, 0>>,
     <<26, 0, 20, 0>>, <<26, 0, 3, 0>>, <<3, 0, 1, 0>>, <<3, 0, 2, 0>>,
     <<3, 0, 20, 0>>, <<3, 0, 21, 0>>, <<3, 0, 22, 0>>, <<3, 0, 23, 1>>,
     <<3, 0, 24, 1>>, <<3, 0, 25, 0>>, <<3, 0, 26, 0>>, <<3, 0, 3, 0>>,
     <<3, 0, 4, 0>>, <<3, 0, 40, 0>>, <<3, 0, 42, 0>>, <<3, 0, 43, 0>>,
     <<3, 0, 5, 0>>, <<3, 0, 60, 0>>, <<3, 0, 7, 0>>, <<3, 0, 8, 0>>,
     <<3, 0, 9, -1>>, <<3, 1, 1, 0>>, <<3, 1, 2, 0>>, <<3, 1, 20, 0>>,
     <<3, 1, 22, 0>>, <<3, 1, 40, 0>>, <<3, 1, 5, 0>>, <<3, 1, 6, 0>>,
     <<4, 0, 1, 0>>, <<4, 0, 20, 0>>, <<4, 0, 21, 0>>, <<4, 0, 22, 0>>,
     <<4, 0, 3, 0>>, <<4, 0, 4, 0>>, <<4, 0, 40, 0>>, <<4, 0, 5, 0>>,
     <<4, 0, 6, 0>>, <<40, 0, 1, 0>>, <<40, 0, 2, 0>>, <<40, 0, 21, 0>>,
     <<40, 0, 22, 0>>, <<40, 0, 23, 0>>, <<40, 0, 3, 0>>, <<40, 0, 3, 1>>,
     <<40, 0, 4, 0>>, <<40, 0, 5, 0>>, <<40, 0, 6, 0>>, <<41, 0, 2, 0>>,
     <<41, 0, 20, 0>>, <<42, 0, 1, 0>>, <<42, 0, 2, 0>>, <<42, 0, 20, 0>>,
     <<42, 0, 3, 0>>, <<43, 0, 2, 0>>, <<43, 0, 20, 0>>, <<43, 0, 3, 0>>,
     <<5, 0, 1, 0>>, <<5, 0, 2, 0>>, <<5, 0, 20, 0>>, <<5, 0, 21, 0>>,
     <<5, 0, 22, 0>>, <<5, 0, 23, 0>>, <<5, 0, 3, 0>>, <<5, 0, 3, 1>>,
     <<5, 0, 4, 0>>, <<5, 0, 40, 0>>, <<5, 0, 5, 0>>, <<5, 0, 6, 0>>,
     <<6, 0, 1, 0>>, <<6, 0, 2, 0>>, <<6, 0, 20, 0>>, <<6, 0, 21, 0>>,
     <<6, 0, 23, 0>>, <<6, 0, 3, 1>>, <<6, 0, 4, 0>>, <<6, 0, 40, 0>>,
     <<6, 0, 5, 0>>, <<6, 0, 6, 0>>, <<6, 1, 2, 0>>, <<6, 1, 20, 0>>,
     <<60, 0, 1, 0>>, <<60, 0, 2, 0>>, <<60, 0, 3, 0>>, <<7, 0, 20, 0>>,
     <<7, 0, 3, 0>>, <<8, 0, 1, 0>>, <<8, 0, 2, 0>>, <<8, 0, 20, 0>>,
     <<8, 0, 3, 0>>, <<9, -1, 20, 0>>, <<9, -1, 3, 0>>
    }

KahanRoundsUp ==
    {
     <<1, 1, 1>>, <<1, 1, 2, 2>>, <<1, 1, 20, 1>>, <<1, 1, 20, 2>>, <<1, 2, 1, 2>>,
     <<1, 2, 2, 1>>, <<1, 2, 2, 2>>, <<1, 20, 1, 1>>, <<1, 20, 2>>, <<1, 2>>,
     <<2, 1, 1, 2>>, <<2, 1, 2, 1>>, <<2, 1, 2, 2>>, <<2, 1>>, <<2, 2, 1, 1>>,
     <<2, 2, 1, 2>>, <<2, 2, 2, 1>>, <<2, 2, 2>>, <<2, 20, 1, 1>>, <<2, 20, 1, 20>>,
     <<2, 20, 1>>, <<2, 20, 2>>, <<2, 20, 3, 3>>, <<3, 3, 20, 2>>
    }

KahanRoundsDown ==
    {
     <<1, 2, 3, 3>>, <<1, 3, 1, 3>>, <<1, 3, 2, 3>>, <<1, 3, 20, 3>>, <<1, 3, 3, 1>>,
     <<1, 3, 3, 2>>, <<2, 1, 3, 3>>, <<2, 2, 20, 3>>, <<20, 3, 20, 1>>, <<3, 1, 20, 3>>,
     <<3, 1, 3, 1>>, <<3, 1, 3, 2>>, <<3, 20, 20, 1>>, <<3, 3, 3>>
    }


(* x + y in float64. *)
FAdd(x, y) ==
    IF IsIntegral(x) /\ IsIntegral(y) THEN F64(x.k + y.k, 0)
    ELSE LET q == <<x.k, x.d, y.k, y.d>> IN
         CASE q \in AddRoundsUp             -> F64(x.k + y.k, 1)
           [] q \in AddRoundsDown           -> F64(x.k + y.k, -1)
           [] q \in AddRoundsToNearestTenth -> F64(x.k + y.k, 0)

RECURSIVE NpSumFrom(_, _)
NpSumFrom(total, values) ==
    IF values = <<>> THEN total ELSE NpSumFrom(FAdd(total, Head(values)), Tail(values))

(* Series.sum() of a float64 column: numpy adds the values in order (below *)
(* eight values; its pairwise blocks for more differ only in rounding,     *)
(* which whole numbers do not have). 0.0 for an empty column.              *)
NpSum(values) ==
    IF values = <<>> THEN F64(0, 0) ELSE NpSumFrom(Head(values), Tail(values))

RECURSIVE Tenths(_)
Tenths(values) == IF values = <<>> THEN 0 ELSE Head(values).k + Tenths(Tail(values))

(* groupby(...).sum() of a float64 column for one group: pandas' group_sum *)
(* is a Kahan compensated sum, which lands on the double nearest the       *)
(* decimal sum except for the cost sequences of KahanRoundsUp and          *)
(* KahanRoundsDown. The values of a group are costs as loaded (d = 0).     *)
GroupSum(values) ==
    LET ks == [i \in DOMAIN values |-> values[i].k] IN
    CASE \A i \in DOMAIN values : IsIntegral(values[i]) -> F64(Tenths(values), 0)
      [] ks \in KahanRoundsUp   -> F64(Tenths(values), 1)
      [] ks \in KahanRoundsDown -> F64(Tenths(values), -1)
      [] /\ Len(values) <= 4
         /\ \A i \in DOMAIN values : values[i] \in {F64(1, 0), F64(2, 0), F64(3, 0), F64(20, 0)}
                                -> F64(Tenths(values), 0)

RECURSIVE IntSum(_)
(* sum() of an int64 column *)
IntSum(values) == IF values = <<>> THEN 0 ELSE Head(values) + IntSum(Tail(values))

----------------------------------------------------------------------------
(* plot_data                                                               *)

Column(frame, name) == [i \in DOMAIN frame |-> frame[i][name]]

Numbers(values) == [i \in DOMAIN values |-> values[i].n]

(* frame[frame[name] == value] *)
Filter(frame, name, value) == SelectSeq(frame, LAMBDA row : row[name] = value)

(* Python's order of the names of the model (code points: "T" < "a"). *)
SortedNames == <<"Total", "a@x.com", "b@x.com", "claude", "gpt-4">>

AggModels == 11

ModelName(i) == "model-" \o Pad(i, 2)

AllNames == SortedNames \o [i \in 1..(AggModels + 1) |-> ModelName(i)]

(* The keys, all of them names of AllNames, in ascending order. *)
Ascending(keys) ==
    LET names == SelectSeq(AllNames, LAMBDA name : JStr(name) \in keys)
    IN  [i \in DOMAIN names |-> JStr(names[i])]

(* The group keys of frame.groupby(name), which sorts them. *)
GroupKeys(frame, name) == Ascending({frame[i][name] : i \in DOMAIN frame})

Less(a, b, by) ==
    IF by = "total_cost" THEN F64Less(a[by], b[by]) ELSE a[by] < b[by]

Remove(seq, i) == SubSeq(seq, 1, i - 1) \o SubSeq(seq, i + 1, Len(seq))

(* The orders sort_values may leave equal rows in: its default quicksort   *)
(* is not stable.                                                          *)
TieOrders == {"kept", "reversed"}

RECURSIVE Largest(_, _, _, _, _)
(* The index of a row of frame[i..] or best with the largest value of by;  *)
(* among equal rows the first in the "kept" order, the last in "reversed". *)
Largest(frame, by, tie, i, best) ==
    IF i > Len(frame) THEN best
    ELSE IF Less(frame[best], frame[i], by) \/
            (tie = "reversed" /\ ~Less(frame[i], frame[best], by))
         THEN Largest(frame, by, tie, i + 1, i)
         ELSE Largest(frame, by, tie, i + 1, best)

RECURSIVE sort_values(_, _, _)
(* frame.sort_values(by=by, ascending=False) *)
sort_values(frame, by, tie) ==
    IF frame = <<>> THEN <<>>
    ELSE LET pick == Largest(frame, by, tie, 2, 1)
         IN  <<frame[pick]>> \o sort_values(Remove(frame, pick), by, tie)

Top == 10

(* frame.head(n) *)
(* DataFrame.tail(n) in the place of head(n). *)
tail(frame, n) == SubSeq(frame, IF Len(frame) < n THEN 1 ELSE Len(frame) - n + 1, Len(frame))

head(frame, n) == SubSeq(frame, 1, IF Len(frame) < n THEN Len(frame) ELSE n)

NoPlot ==
    [status |-> "none", total_messages |-> 0, total_cost_month |-> F64(0, 0),
     total_tokens_month |-> 0, total_images_month |-> 0,
     month_data_models_tokens |-> <<>>, month_data_models_cost |-> <<>>,
     month_data_users |-> <<>>, fig_users |-> <<>>]

(* Lines 183-188 *)
ModelsTokens(month_data, tie) ==
    LET keys    == GroupKeys(month_data, "model")
        grouped == [i \in DOMAIN keys |->
                      [model |-> keys[i],
                       total_tokens |->
                           IntSum(Numbers(Column(Filter(month_data, "model", keys[i]),
                                                 "total_tokens")))]]
    IN  head(sort_values(grouped, "total_tokens", tie), Top)

(* Lines 200-205 *)
ModelsCost(month_data, tie) ==
    LET keys    == GroupKeys(month_data, "model")
        grouped == [i \in DOMAIN keys |->
                      [model |-> keys[i],
                       total_cost |->
                           GroupSum(Column(Filter(month_data, "model", keys[i]),
                                           "total_cost"))]]
    IN  head(sort_values(grouped, "total_cost", tie), Top)

(* Lines 218-223 *)
UsersSorted(month_data, tie) ==
    LET keys    == GroupKeys(month_data, "user")
        grouped == [i \in DOMAIN keys |->
                      LET rows == Filter(month_data, "user", keys[i]) IN
                      [user |-> keys[i],
                       total_cost |-> GroupSum(Column(rows, "total_cost")),
                       total_tokens |-> IntSum(Numbers(Column(rows, "total_tokens"))),
                       image_count |-> IntSum(Numbers(Column(rows, "image_count")))]]
    IN  sort_values(grouped, "total_cost", tie)

(* The total row summed from Tail(users), the first user left out. *)
TotalRowWithoutFirstUser(users) ==
    [user |-> JStr("Total"),
     total_cost |-> NpSum(Column(Tail(users), "total_cost")),
     total_tokens |-> IntSum(Column(Tail(users), "total_tokens")),
     image_count |-> IntSum(Column(Tail(users), "image_count"))]

(* Lines 226-238 *)
TotalRow(users) ==
    [user |-> JStr("Total"),
     total_cost |-> NpSum(Column(users, "total_cost")),
     total_tokens |-> IntSum(Column(users, "total_tokens")),
     image_count |-> IntSum(Column(users, "image_count"))]

(* Line 241 *)
UsersTable(month_data, tie) ==
    LET users == UsersSorted(month_data, tie) IN Append(users, TotalRow(users))

(* Lines 245-247 *)
UsersChart(month_data_users) ==
    SelectSeq(month_data_users, LAMBDA row : row.user # JStr("Total"))

(* plot_data, lines 154-265. status is nodata for the early return of line *)
(* 158, raised when a total_tokens that is a str makes line 165 (int +     *)
(* str) or the "," format of line 174 (a str total) raise, else rendered.  *)
plot_data(data, selected, tie) ==
    LET month_data == Filter(data.rows, "month", selected) IN
    IF month_data = <<>>
    THEN [plot |-> [NoPlot EXCEPT !.status = "nodata"],
          diags |-> <<Diag("NoDataForPeriod", selected, NoRecord)>>]
    ELSE IF \E i \in DOMAIN month_data : month_data[i].total_tokens.t # "int"
    THEN [plot |-> [NoPlot EXCEPT !.status = "raised"], diags |-> <<>>]
    ELSE LET month_data_users == UsersTable(month_data, tie) IN
         [plot |->
            [status |-> "rendered",
             total_messages |-> Len(month_data),
             total_cost_month |-> NpSum(Column(month_data, "total_cost")),
             total_tokens_month |-> IntSum(Numbers(Column(month_data, "total_tokens"))),
             total_images_month |-> IntSum(Numbers(Column(month_data, "image_count"))),
             month_data_models_tokens |-> ModelsTokens(month_data, tie),
             month_data_models_cost |-> ModelsCost(month_data, tie),
             month_data_users |-> month_data_users,
             fig_users |-> UsersChart(month_data_users)],
          diags |-> <<>>]

----------------------------------------------------------------------------
(* load_data and main: one run of the script, which Streamlit starts again *)
(* from the top after every interaction.                                   *)

(* load_data, lines 33-38: the parsed document, or None after the error    *)
(* box for bytes that are not JSON. json.load returns None for "null".     *)
load_data(f) ==
    CASE f.root = "invalid" -> [none |-> TRUE,
                                diags |-> <<Diag("InvalidDocument", "", NoRecord)>>]
      [] f.root = "null"    -> [none |-> TRUE, diags |-> <<>>]
      [] OTHER              -> [none |-> FALSE, diags |-> <<>>]

RECURSIVE unique(_)
(* Series.unique(): the distinct values in order of appearance. *)
unique(values) ==
    IF values = <<>> THEN <<>>
    ELSE LET rest == unique(SubSeq(values, 1, Len(values) - 1))
             last == values[Len(values)]
         IN  IF \E i \in DOMAIN rest : rest[i] = last THEN rest ELSE Append(rest, last)

(* What the selectbox returns when it has no option. *)
None == "None"

(* st.sidebar.selectbox("Select a month", months): the option selected     *)
(* before the run if it is still an option, else the first option, None    *)
(* when there is none.                                                     *)
selectbox(options, selection) ==
    IF options = <<>> THEN None
    ELSE IF \E i \in DOMAIN options : options[i] = selection THEN selection
    ELSE options[1]

Run(st, frame, ms, m, button, msgs, p) ==
    [status |-> st, processed_data |-> frame, months |-> ms, month |-> m,
     clicked |-> button, messages |-> msgs, plot |-> p]

(* main, lines 284-295, for the uploaded file f, the month selected in the *)
(* sidebar and the button pressed ("" for none). status is noload when     *)
(* load_data returned None, raised_process when process_data or line 290   *)
(* raised, raised_plot when plot_data raised, else ok.                     *)
main(f, selection, button, tie) ==
    LET data == load_data(f) IN
    IF data.none THEN Run("noload", NoFrame, <<>>, None, button, data.diags, NoPlot)
    ELSE LET processed == process_data(f) IN
    IF processed.raised \/ ~(\E i \in DOMAIN processed.frame.columns :
                                processed.frame.columns[i] = "month")
    THEN Run("raised_process", NoFrame, <<>>, None, button, processed.diags, NoPlot)
    ELSE LET ms == unique(Column(processed.frame.rows, "month"))
             m  == selectbox(ms, selection)
         IN  IF button = ""
             THEN Run("ok", processed.frame, ms, m, button, processed.diags, NoPlot)
             ELSE LET plotted == plot_data(processed.frame, m, tie) IN
                  Run(IF plotted.plot.status = "raised" THEN "raised_plot" ELSE "ok",
                      processed.frame, ms, m, button,
                      processed.diags \o plotted.diags, plotted.plot)

Show(run) ==
    /\ status' = run.status
    /\ processed_data' = run.processed_data
    /\ months' = run.months
    /\ month' = run.month
    /\ clicked' = run.clicked
    /\ messages' = run.messages
    /\ plot' = run.plot

Init ==
    /\ file = NoFile
    /\ status = "waiting"
    /\ processed_data = NoFrame
    /\ months = <<>>
    /\ month = None
    /\ clicked = ""
    /\ messages = <<>>
    /\ plot = NoPlot

(* The user uploads a file (line 284). *)
Upload(doc) ==
    /\ file = NoFile
    /\ file' = doc
    /\ Show(main(doc, None, "", "kept"))

(* The user picks another month in the sidebar (line 291). *)
SelectMonth(m) ==
    /\ status \in {"ok", "raised_plot"}
    /\ \E i \in DOMAIN months : months[i] = m
    /\ m # month
    /\ file' = file
    /\ Show(main(file, m, "", "kept"))

(* The user presses "Process Data" (line 292). *)
PressProcessData(tie) ==
    /\ status \in {"ok", "raised_plot"}
    /\ file' = file
    /\ Show(main(file, month, "Process Data", tie))

(* The user presses "Plot Data" in the sidebar (line 294), which the run   *)
(* rendered unless plot_data raised at line 293.                           *)
PressPlotData(tie) ==
    /\ status = "ok" \/ (status = "raised_plot" /\ clicked = "Plot Data")
    /\ file' = file
    /\ Show(main(file, month, "Plot Data", tie))

----------------------------------------------------------------------------
(* The files uploaded. A dataset is a sequence of items, each a user and a *)
(* record without its "user" key; FlatDoc writes it as an array of records *)
(* that carry the user, KeyedDoc as an object from each user, in order of  *)
(* first appearance, to the list of that user's records.                   *)

MaxRecords == 3

Item(user, record) == [user |-> user, record |-> record]

Usage(ts, model, cost, inp, out) == Rec(ts, model, cost, inp, out, Absent, Absent, Absent)

(* Well-formed records, in two months, by two models, of two users, one of *)
(* them named "Total"; the second gives its cost as text and has the       *)
(* optional keys.                                                          *)
ValidItems ==
    { Item("a@x.com", Usage(JStr(TsNov), JStr("gpt-4"), JFloat(1), JInt(100), JInt(50))),
      Item("Total", Rec(JStr(TsNov), JStr("gpt-4"), JStr("0.2"), JInt(1), JInt(2),
                        JInt(1), JStr("image_generation"), Absent)),
      Item("Total", Usage(JStr(TsNov), JStr("claude"), JFloat(3), JInt(10), JInt(5))),
      Item("a@x.com", Usage(JStr(TsDec), JStr("claude"), JInt(2), JInt(3), JInt(4))),
      Item("Total", Usage(JStr(TsDec), JStr("gpt-4"), JInt(2), JInt(1), JInt(1))) }

(* Malformed records: no model, a timestamp in another format, token       *)
(* counts that are text, and an array element that is a number.            *)
MalformedItems ==
    { Item("a@x.com", Usage(JStr(TsNov), Absent, JFloat(1), JInt(100), JInt(50))),
      Item("Total", Usage(JStr(TsBad), JStr("gpt-4"), JFloat(1), JInt(100), JInt(50))),
      Item("a@x.com", Usage(JStr(TsNov), JStr("gpt-4"), JFloat(1), JStr("100"), JStr("50"))),
      Item("a@x.com", NonDictRecord) }

(* In an array only: a record without its "user" key. *)
NoUser == ""

FlatItems ==
    ValidItems \cup MalformedItems \cup
    { Item(NoUser, Usage(JStr(TsNov), JStr("gpt-4"), JFloat(1), JInt(100), JInt(50))) }

(* In an object only: a user whose value is not a list. *)
NotAList == [NonDictRecord EXCEPT !.type = JStr("not a list")]

KeyedItems == ValidItems \cup MalformedItems \cup { Item("b@x.com", NotAList) }

Datasets(items, n) == UNION { [1..m -> items] : m \in 0..n }

WithUser(item) ==
    IF ~item.record.isdict \/ item.user = NoUser THEN item.record
    ELSE [item.record EXCEPT !.user = JStr(item.user)]

FlatDoc(dataset) == ArrayDoc([i \in DOMAIN dataset |-> WithUser(dataset[i])])

KeyedDoc(dataset) ==
    LET users   == unique(Column(dataset, "user"))
        entries == [i \in DOMAIN users |->
                      LET mine == Column(Filter(dataset, "user", users[i]), "record") IN
                      IF \E j \in DOMAIN mine : mine[j] = NotAList
                      THEN Entry(users[i], FALSE, <<>>)
                      ELSE Entry(users[i], TRUE, mine)]
    IN  ObjectDoc(entries)

FlowDocs ==
    { FlatDoc(d) : d \in Datasets(FlatItems, MaxRecords) } \cup
    { KeyedDoc(d) : d \in Datasets(KeyedItems, MaxRecords) } \cup
    { NumberDoc, NullDoc, InvalidJson }

Next ==
    \/ file = NoFile /\ \E doc \in FlowDocs : Upload(doc)
    \/ \E i \in DOMAIN months : SelectMonth(months[i])
    \/ \E tie \in TieOrders : PressProcessData(tie)
    \/ \E tie \in TieOrders : PressPlotData(tie)

Spec == Init /\ [][Next]_vars

----------------------------------------------------------------------------
(* Records in every combination of a present, absent or ill-typed value    *)
(* for each of the five required keys, each between up to MaxWide          *)
(* well-formed records on either side.                                     *)

MaxWide == 1

WideItems ==
    { Item("a@x.com", Usage(ts, model, cost, inp, out)) :
        ts \in {Absent, JStr(TsNov), JStr(TsBad), JInt(5)},
        model \in {Absent, JStr("gpt-4")},
        cost \in {Absent, JFloat(1), JStr("0.2"), JStr("abc")},
        inp \in {Absent, JInt(100), JStr("100")},
        out \in {Absent, JInt(50), JStr("50")} }

(* The well-formed records put before and after them in a file. *)
Companions ==
    { Item("a@x.com", Usage(JStr(TsDec), JStr("claude"), JInt(2), JInt(3), JInt(4))),
      Item("Total", Usage(JStr(TsNov), JStr("claude"), JFloat(3), JInt(10), JInt(5))) }

WideDatasets ==
    { before \o <<item>> \o after :
        before \in Datasets(Companions, MaxWide),
        item \in WideItems,
        after \in Datasets(Companions, MaxWide) }

RecordDocs ==
    { FlatDoc(d) : d \in WideDatasets } \cup { KeyedDoc(d) : d \in WideDatasets }

NextRecord == file = NoFile /\ \E doc \in RecordDocs : Upload(doc)

SpecRecord == Init /\ [][NextRecord]_vars

----------------------------------------------------------------------------
(* One month with more models than the charts show: AggModels + 1 records, *)
(* record i by model i (the last one by model 1 again), each with 1 token  *)
(* at a cost of 2 or 2 tokens at a cost of 1.                              *)

AggRecord(i, c) ==
    Rec(JStr(TsNov), JStr(ModelName(((i - 1) % AggModels) + 1)), JInt(3 - c),
        JInt(c), JInt(0), Absent, Absent,
        JStr(IF i % 2 = 1 THEN "a@x.com" ELSE "b@x.com"))

AggDocs ==
    { ArrayDoc([i \in 1..(AggModels + 1) |-> AggRecord(i, c[i])]) :
        c \in [1..(AggModels + 1) -> {1, 2}] }

NextAgg ==
    \/ file = NoFile /\ \E doc \in AggDocs : Upload(doc)
    \/ \E tie \in TieOrders : PressProcessData(tie)
    \/ \E tie \in TieOrders : PressPlotData(tie)

SpecAgg == Init /\ [][NextAgg]_vars

----------------------------------------------------------------------------
(* What the claims speak of.                                               *)

RECURSIVE Flatten(_)
Flatten(seqs) == IF seqs = <<>> THEN <<>> ELSE Head(seqs) \o Flatten(Tail(seqs))

(* The items of a document in the order process_data visits them: the keys *)
(* of an object in order and each key's list in order, or the array.       *)
Traversal(doc) ==
    IF doc.root = "object"
    THEN Flatten([i \in DOMAIN doc.entries |->
                    [j \in DOMAIN doc.entries[i].records |->
                        Item(doc.entries[i].key, doc.entries[i].records[j])]])
    ELSE [i \in DOMAIN doc.items |->
            Item(IF doc.items[i].user.t = "str" THEN doc.items[i].user.s ELSE NoUser,
                 doc.items[i])]

(* The document without the records equal to r. *)
Without(doc, r) ==
    [doc EXCEPT !.items = SelectSeq(@, LAMBDA x : x # r),
                !.entries = [i \in DOMAIN @ |->
                               [@[i] EXCEPT !.records = SelectSeq(@, LAMBDA x : x # r)]]]

Processed == status \in {"ok", "raised_plot"}

RowSet(rows) == {rows[i] : i \in DOMAIN rows}

Count(seq, Test(_)) == Len(SelectSeq(seq, Test))

Required == <<"timestamp", "model", "total_cost", "input_tokens", "output_tokens">>

MissingKeys(r) == {i \in DOMAIN Required : r[Required[i]] = Absent}

(* The first of the required keys, in the order above, that r lacks. *)
FirstMissing(r) ==
    Required[CHOOSE i \in MissingKeys(r) : \A j \in MissingKeys(r) : i <= j]

TimestampOk(v) == v.t = "str" /\ strptime(v.s).ok
CostOk(v)      == v.t \in {"int", "float"} \/ (v.t = "str" /\ float(v.s).ok)
TokensOk(v)    == v.t = "int"

(* Every required value the record has is as the schema wants it. *)
PresentAreWellFormed(r) ==
    /\ r.isdict
    /\ r.timestamp = Absent \/ TimestampOk(r.timestamp)
    /\ r.total_cost = Absent \/ CostOk(r.total_cost)
    /\ r.input_tokens = Absent \/ TokensOk(r.input_tokens)
    /\ r.output_tokens = Absent \/ TokensOk(r.output_tokens)

(* A record as the schema wants it, in the shape of the document: every    *)
(* required key, a timestamp in the format, a cost that is a number or the *)
(* text of one, integer token counts, and its user in an array.            *)
SchemaValid(doc, item) ==
    /\ MissingKeys(item.record) = {}
    /\ PresentAreWellFormed(item.record)
    /\ doc.root = "array" => item.record.user.t = "str"

----------------------------------------------------------------------------
(* C1: the same dataset written as an object keyed by user (records        *)
(* without a user key) and as an array of records that carry their user    *)
(* gives the same set of rows.                                             *)

CarriesUsers(doc) ==
    \A i \in DOMAIN doc.items : doc.items[i].isdict /\ doc.items[i].user.t = "str"

ListsOfObjects(doc) ==
    \A i \in DOMAIN doc.entries :
        /\ doc.entries[i].islist
        /\ \A j \in DOMAIN doc.entries[i].records : doc.entries[i].records[j].isdict

(* The object form of an array whose records carry their user. *)
AsKeyed(doc) ==
    KeyedDoc([i \in DOMAIN doc.items |->
                Item(doc.items[i].user.s, [doc.items[i] EXCEPT !.user = Absent])])

(* The array form of an object. *)
AsFlat(doc) == FlatDoc(Traversal(doc))

C1_ShapesGiveSameRows ==
    Processed =>
        /\ (file.root = "array" /\ CarriesUsers(file)) =>
              RowSet(processed_data.rows) = RowSet(process_data(AsKeyed(file)).frame.rows)
        /\ (file.root = "object" /\ ListsOfObjects(file)) =>
              RowSet(processed_data.rows) = RowSet(process_data(AsFlat(file)).frame.rows)

(* An array of three records of two users, a malformed one among them,     *)
(* whose rows come out in another order from the object form.              *)
C1_Witness ==
    /\ Processed /\ file.root = "array" /\ CarriesUsers(file)
    /\ Len(file.items) = 3 /\ Len(processed_data.rows) = 2
    /\ processed_data.rows # process_data(AsKeyed(file)).frame.rows

----------------------------------------------------------------------------
(* C2: in either shape, a record that lacks one of timestamp, model,       *)
(* total_cost, input_tokens, output_tokens (and whose other values are     *)
(* well-formed) is left out of the rows, and gets exactly one box, a       *)
(* MissingField that names the key it lacks.                               *)

Records(doc) == Column(Traversal(doc), "record")

----------------------------------------------------------------------------
(* C6: when no record survives (an empty array, an empty object, only      *)
(* malformed records), process_data returns the empty frame with the seven *)
(* columns and shows exactly one NoValidData box, there is no month to     *)
(* select, and no run of the script raises, whichever button is pressed.   *)

C6_NothingSurvives ==
    (file.root \in {"object", "array"} /\ processed_data.rows = <<>>) =>
        /\ status = "ok"
        /\ processed_data = DataFrame(Columns, <<>>)
        /\ Count(messages, LAMBDA d : d.kind = "NoValidData") = 1
        /\ months = <<>> /\ month = None
        /\ plot.status # "raised"

(* A button pressed after a file of two malformed records was uploaded. *)
C6_Witness ==
    /\ file.root \in {"object", "array"} /\ Len(Records(file)) = 2
    /\ processed_data.rows = <<>> /\ clicked = "Plot Data" /\ status = "ok"

----------------------------------------------------------------------------
(* C3: a malformed record never stops process_data, and the rows are       *)
(* exactly the schema-valid records, in the order of the traversal: what   *)
(* process_data returns for the file equals what it returns for the file   *)
(* with every malformed record taken out, and there are as many rows as    *)
(* schema-valid records.                                                   *)

OnlyValid(doc) ==
    [doc EXCEPT !.items = SelectSeq(@, LAMBDA x : SchemaValid(doc, Item(NoUser, x))),
                !.entries = [i \in DOMAIN @ |->
                               [@[i] EXCEPT !.records =
                                   SelectSeq(@, LAMBDA x : SchemaValid(doc, Item(NoUser, x)))]]]

C3_RowsAreTheValidRecordsInOrder ==
    (file.root \in {"object", "array"}) =>
        /\ Processed
        /\ processed_data.rows = process_data(OnlyValid(file)).frame.rows
        /\ Len(processed_data.rows)
               = Count(Traversal(file), LAMBDA item : SchemaValid(file, item))

----------------------------------------------------------------------------
(* C4: for a month that has records, the users table ends with the Total   *)
(* row, and the total_cost of that row equals the month's total cost of    *)
(* the summary.                                                            *)

Last(seq) == seq[Len(seq)]

MonthData == Filter(processed_data.rows, "month", month)

C4_TotalRowEqualsSummary ==
    plot.status = "rendered" =>
        /\ Last(plot.month_data_users).user = JStr("Total")
        /\ Last(plot.month_data_users).total_cost = plot.total_cost_month

(* C4 as the code has it: the summary is the sum of the month's costs in   *)
(* row order, the Total row is the sum of the per-user sums in table       *)
(* order, the two agree to within one unit in the last place of the tenth  *)
(* they are nearest to, and they are equal when every cost of the month is *)
(* a whole number.                                                         *)
C4_TotalRowIsSumOfUserSums ==
    plot.status = "rendered" =>
        LET users   == plot.month_data_users
            total   == Last(users)
            summary == plot.total_cost_month
        IN  /\ Len(users) >= 2
            /\ total.user = JStr("Total")
            /\ summary = NpSum(Column(MonthData, "total_cost"))
            /\ total.total_cost
                   = NpSum(Column(SubSeq(users, 1, Len(users) - 1), "total_cost"))
            /\ total.total_cost.k = summary.k
            /\ total.total_cost.d - summary.d \in {-1, 0, 1}
            /\ (\A i \in DOMAIN MonthData : IsIntegral(MonthData[i].total_cost))
                   => total.total_cost = summary

(* Three records of two users in one month whose two sums differ in the    *)
(* last place.                                                             *)
C4_Witness ==
    /\ plot.status = "rendered" /\ Len(MonthData) = 3
    /\ Len(plot.month_data_users) = 3
    /\ Last(plot.month_data_users).total_cost # plot.total_cost_month
    /\ Last(plot.month_data_users).total_cost.k = plot.total_cost_month.k

----------------------------------------------------------------------------
(* C5: each of the two model charts (by total_tokens, by total_cost) has   *)
(* at most 10 rows, one per model and no model twice, each with the sum of *)
(* that model's records of the month; the sums do not increase down the    *)
(* chart, and no model left out has a larger sum than a model shown.       *)

ModelSum(name, by) ==
    LET rows == Filter(MonthData, "model", name) IN
    IF by = "total_cost" THEN GroupSum(Column(rows, "total_cost"))
    ELSE IntSum(Numbers(Column(rows, "total_tokens")))

MonthModels == {MonthData[i].model : i \in DOMAIN MonthData}

TopByModel(view, by) ==
    LET shown == {view[i].model : i \in DOMAIN view} IN
    /\ Len(view) <= Top
    /\ Len(view) = (IF Cardinality(MonthModels) < Top THEN Cardinality(MonthModels) ELSE Top)
    /\ shown \subseteq MonthModels
    /\ \A i, j \in DOMAIN view : view[i].model = view[j].model => i = j
    /\ \A i \in DOMAIN view : view[i][by] = ModelSum(view[i].model, by)
    /\ \A i, j \in DOMAIN view : i < j => ~Less(view[i], view[j], by)
    /\ \A name \in MonthModels \ shown :
           \A i \in DOMAIN view :
               ~Less(view[i], [model |-> name, total_tokens |-> ModelSum(name, by),
                               total_cost |-> ModelSum(name, by)], by)

C5_TopTenModelsBySum ==
    plot.status = "rendered" =>
        /\ TopByModel(plot.month_data_models_tokens, "total_tokens")
        /\ TopByModel(plot.month_data_models_cost, "total_cost")

(* More models than the charts show, and the two charts leave out          *)
(* different models.                                                       *)
C5_Witness ==
    /\ plot.status = "rendered" /\ Cardinality(MonthModels) > Top
    /\ Len(plot.month_data_models_tokens) = Top
    /\ {plot.month_data_models_tokens[i].model : i \in 1..Top}
           # {plot.month_data_models_cost[i].model : i \in 1..Top}
    /\ \E i \in 1..(Top - 1) :
           plot.month_data_models_cost[i].total_cost
               # plot.month_data_models_cost[i + 1].total_cost

----------------------------------------------------------------------------
(* C7: a record whose input_tokens or output_tokens is not a number (both  *)
(* may be text) is left out with an InvalidNumeric box, so the             *)
(* total_tokens of every row is the sum of two numbers.                    *)

NonNumericTokens(r) ==
    /\ r.isdict /\ MissingKeys(r) = {}
    /\ TimestampOk(r.timestamp) /\ CostOk(r.total_cost)
    /\ ~TokensOk(r.input_tokens) \/ ~TokensOk(r.output_tokens)

C7_NonNumericTokensAreDropped ==
    Processed =>
        /\ \A i \in DOMAIN processed_data.rows : processed_data.rows[i].total_tokens.t = "int"
        /\ \A i \in DOMAIN Traversal(file) :
               LET item == Traversal(file)[i] IN
               (NonNumericTokens(item.record)
                   /\ (file.root = "array" => item.record.user.t = "str")) =>
                   \E j \in DOMAIN messages :
                       /\ messages[j].kind = "InvalidNumeric"
                       /\ messages[j].record = item.record

----------------------------------------------------------------------------
(* C8: the box of a dropped record has the kind of the first step that     *)
(* fails, in the order: timestamp parse (InvalidTimestamp), presence of    *)
(* model, total_cost, input_tokens, output_tokens (MissingField), cost     *)
(* coercion (InvalidNumeric), token sum (InvalidNumeric).                  *)

StepKind(r) ==
    CASE r.timestamp = Absent                   -> "MissingField"
      [] ~TimestampOk(r.timestamp)              -> "InvalidTimestamp"
      [] MissingKeys(r) # {}                    -> "MissingField"
      [] ~CostOk(r.total_cost)                  -> "InvalidNumeric"
      [] OTHER                                  -> "InvalidNumeric"

C8_KindOfFirstFailingStep ==
    Processed =>
        \A j \in DOMAIN messages :
            LET r == messages[j].record IN
            (r.isdict /\ (file.root = "array" => r.user.t = "str")) =>
                /\ messages[j].kind = StepKind(r)
                /\ Count(messages, LAMBDA d : d.record = r)
                       = Count(Records(file), LAMBDA x : x = r)

----------------------------------------------------------------------------
(* C9: the "No data available" error of plot_data comes only after a load  *)
(* that gave rows: a run in which no record survived shows NoValidData and *)
(* never NoDataForPeriod as well, and a run with rows has a month selected *)
(* that has a record.                                                      *)

C9_NoDataForPeriodOnlyAfterRows ==
    Processed =>
        /\ processed_data.rows = <<>> =>
               /\ \E j \in DOMAIN messages : messages[j].kind = "NoValidData"
               /\ \A j \in DOMAIN messages : messages[j].kind # "NoDataForPeriod"
        /\ processed_data.rows # <<>> => MonthData # <<>>

----------------------------------------------------------------------------
(* C10: the users chart leaves out the synthetic Total row and nothing     *)
(* else, a user named "Total" included; the table under it has every user  *)
(* of the month and then the Total row.                                    *)

MonthUsers == {MonthData[i].user : i \in DOMAIN MonthData}

C10_ChartLeavesOutOnlyTheTotalRow ==
    plot.status = "rendered" =>
        LET users == plot.month_data_users
            real  == SubSeq(users, 1, Len(users) - 1)
        IN  /\ Last(users).user = JStr("Total")
            /\ {real[i].user : i \in DOMAIN real} = MonthUsers
            /\ plot.fig_users = real

====
